---- MODULE Spec2Model ----
(***************************************************************************)
(* Model of task-03-racing-game/car.py: the Car class (construction, the   *)
(* run/update step, legality with rollback, utility scoring).              *)
(*                                                                         *)
(* Conventions.  A 2-vector (numpy array of shape (2,)) is a 2-tuple;      *)
(* Python index 0 is TLA+ index 1, so p[1] is x and p[2] is y.  A history  *)
(* list is a sequence; Python index i is TLA+ index i + 1.  Floats are     *)
(* integers (every value the model produces is a small integer, exact in   *)
(* float64) plus the value NaN, which propagates through + and makes every *)
(* ordered comparison false, as IEEE-754 does.  np.interp results are kept *)
(* as exact fractions num/den.                                             *)
(***************************************************************************)
EXTENDS Integers, Sequences, FiniteSets, TLC

VARIABLES track, pos, vel, accl, last_pos, last_vel,
          pos_history, vel_history, accl_history,
          decision, legal_history, params, other, heap

vars == <<track, pos, vel, accl, last_pos, last_vel,
          pos_history, vel_history, accl_history, decision, legal_history,
          params, other, heap>>

\* Number of run() calls explored per vehicle.
MaxSteps == 4

(***************************************************************************)
(* Float arithmetic with NaN                                               *)
(***************************************************************************)
\* The float value nan (a decision function may return it); an integer
\* outside every range the model computes with.
NaN == -1000000

IsNaN(v) == v = NaN

FAdd(a, b) == IF IsNaN(a) \/ IsNaN(b) THEN NaN ELSE a + b

FLt(a, b) == ~IsNaN(a) /\ ~IsNaN(b) /\ a < b

FGt(a, b) == FLt(b, a)

FGe(a, b) == ~IsNaN(a) /\ ~IsNaN(b) /\ a >= b

VAdd(p, q) == <<FAdd(p[1], q[1]), FAdd(p[2], q[2])>>

\* np.zeros((2,))
Zero == <<0, 0>>

\* self.max_vel = np.array([25, 25])
max_vel == <<25, 25>>

(***************************************************************************)
(* Tracks: track[0] = xs, track[1] = lower boundary, track[2] = upper      *)
(***************************************************************************)
\* A short corridor with sloped boundaries; its end zone is reachable.
TrackShort == [xs |-> <<0, 2, 5>>, lower |-> <<-2, -2, -3>>, upper |-> <<2, 3, 2>>]

\* A long, wide corridor in which the velocity clamps act on legal steps.
TrackWide == [xs |-> <<0, 30, 60>>, lower |-> <<-40, -40, -40>>, upper |-> <<40, 40, 40>>]

\* A well-formed corridor that does not straddle y = 0.
TrackOffset == [xs |-> <<0, 2, 5>>, lower |-> <<4, 4, 4>>, upper |-> <<6, 6, 6>>]

\* A malformed corridor: lower = upper at xs[1].
TrackPinched == [xs |-> <<0, 2, 5>>, lower |-> <<-2, 1, -2>>, upper |-> <<2, 1, 2>>]

Tracks == {TrackShort, TrackWide, TrackOffset, TrackPinched}

\* Number of samples of the long track below.
LongSamples == 710

\* A well-formed corridor of many samples: xs = 0, 1, 2, ..., flat
\* boundaries at -1000 and 1000, the upper one dropping to 700 at the last
\* sample.
TrackLong ==
    [xs    |-> [j \in 1..LongSamples |-> j - 1],
     lower |-> [j \in 1..LongSamples |-> -1000],
     upper |-> [j \in 1..LongSamples |-> IF j < LongSamples THEN 1000 ELSE 700]]

\* The track invariant of the data model: aligned sequences, xs strictly
\* increasing, lower[i] < upper[i].
WellFormed(tr) ==
    /\ Len(tr.xs) = Len(tr.lower)
    /\ Len(tr.xs) = Len(tr.upper)
    /\ \A i \in 1..(Len(tr.xs) - 1) : tr.xs[i] < tr.xs[i + 1]
    /\ \A i \in 1..Len(tr.xs) : tr.lower[i] < tr.upper[i]

\* self.end = self.track[0][-1]
end(tr) == tr.xs[Len(tr.xs)]

\* A variant of interp that extends the first and last segment linearly
\* instead of returning the endpoint values outside [xp[0], xp[-1]].
interp_extrapolate(x, xp, fp) ==
    LET n == Len(xp) IN
    IF IsNaN(x) THEN [nan |-> TRUE, num |-> 0, den |-> 1]
    ELSE LET j == IF x <= xp[1] THEN 1
                  ELSE IF x >= xp[n] THEN n - 1
                  ELSE CHOOSE i \in 1..(n - 1) : xp[i] <= x /\ x < xp[i + 1]
             dx == xp[j + 1] - xp[j]
         IN  [nan |-> FALSE,
              num |-> fp[j] * dx + (fp[j + 1] - fp[j]) * (x - xp[j]),
              den |-> dx]

\* np.interp(x, xp, fp) for increasing xp, as an exact fraction.
interp(x, xp, fp) ==
    LET n == Len(xp) IN
    IF IsNaN(x) THEN [nan |-> TRUE, num |-> 0, den |-> 1]
    ELSE IF x <= xp[1] THEN [nan |-> FALSE, num |-> fp[1], den |-> 1]
    ELSE IF x >= xp[n] THEN [nan |-> FALSE, num |-> fp[n], den |-> 1]
    ELSE LET j == CHOOSE i \in 1..(n - 1) : xp[i] <= x /\ x < xp[i + 1]
             dx == xp[j + 1] - xp[j]
         IN  [nan |-> FALSE,
              num |-> fp[j] * dx + (fp[j + 1] - fp[j]) * (x - xp[j]),
              den |-> dx]

\* self.track_at = lambda x: (np.interp(x, xs, lower), np.interp(x, xs, upper))
track_at(x, tr) == <<interp(x, tr.xs, tr.lower), interp(x, tr.xs, tr.upper)>>

\* q < y and y < q for an interpolated q (den > 0) and a float y.
QLtF(q, y) == ~q.nan /\ ~IsNaN(y) /\ q.num < y * q.den

FLtQ(y, q) == ~q.nan /\ ~IsNaN(y) /\ y * q.den < q.num

\* Car.is_legal, on position p
is_legal(p, tr) ==
    LET t == track_at(p[1], tr) IN
    /\ QLtF(t[1], p[2]) /\ FLtQ(p[2], t[2])
    /\ FLt(0, p[1]) /\ FLt(p[1], end(tr))

(***************************************************************************)
(* Car.update                                                              *)
(***************************************************************************)
\* A variant of the clamping without the lower bound 0 on the forward
\* component.
clamp_no_floor(v) ==
    LET vx1 == IF FGt(v[1], max_vel[1]) THEN max_vel[1] ELSE v[1]
        vy1 == IF FGt(v[2], max_vel[2]) THEN max_vel[2] ELSE v[2]
        vy2 == IF FLt(vy1, -max_vel[2]) THEN -max_vel[2] ELSE vy1
    IN  <<vx1, vy2>>

\* The four clamping statements of update (applied to self.vel in place).
clamp(v) ==
    LET vx1 == IF FGt(v[1], max_vel[1]) THEN max_vel[1] ELSE v[1]
        vx2 == IF FLt(vx1, 0) THEN 0 ELSE vx1
        vy1 == IF FGt(v[2], max_vel[2]) THEN max_vel[2] ELSE v[2]
        vy2 == IF FLt(vy1, -max_vel[2]) THEN -max_vel[2] ELSE vy1
    IN  <<vx2, vy2>>

\* The car after update: the snapshot taken on entry, the new position,
\* velocity and acceleration, and one copy of each appended to its history.
\* legal is the value is_legal() returned in this update.
car_after(self, legal, new_pos, new_vel, new_accl) ==
    [pos          |-> new_pos,
     vel          |-> new_vel,
     accl         |-> new_accl,
     last_pos     |-> self.pos,
     last_vel     |-> self.vel,
     pos_history  |-> Append(self.pos_history, new_pos),
     vel_history  |-> Append(self.vel_history, new_vel),
     accl_history |-> Append(self.accl_history, new_accl),
     legal        |-> legal]

\* Variants of update used to test that the properties below depend on it.
\* No rollback: an illegal tentative position is kept.
update_no_rollback(self, tr) ==
    LET v == clamp(self.vel)
        p == VAdd(self.pos, v)
    IN  IF is_legal(p, tr)
        THEN car_after(self, TRUE, p, VAdd(v, self.accl), self.accl)
        ELSE car_after(self, FALSE, p, Zero, Zero)

\* The rollback keeps the clamped velocity instead of zeroing it.
update_keep_vel(self, tr) ==
    LET v == clamp(self.vel)
        p == VAdd(self.pos, v)
    IN  IF is_legal(p, tr)
        THEN car_after(self, TRUE, p, VAdd(v, self.accl), self.accl)
        ELSE car_after(self, FALSE, self.pos, v, Zero)

\* The rollback keeps the acceleration instead of zeroing it.
update_keep_accl(self, tr) ==
    LET v == clamp(self.vel)
        p == VAdd(self.pos, v)
    IN  IF is_legal(p, tr)
        THEN car_after(self, TRUE, p, VAdd(v, self.accl), self.accl)
        ELSE car_after(self, FALSE, self.pos, Zero, self.accl)

\* The acceleration is applied to the velocity before the position is
\* integrated.
update_accl_first(self, tr) ==
    LET v == clamp(VAdd(self.vel, self.accl))
        p == VAdd(self.pos, v)
    IN  IF is_legal(p, tr)
        THEN car_after(self, TRUE, p, v, self.accl)
        ELSE car_after(self, FALSE, self.pos, Zero, Zero)

\* A rolled-back step is not appended to the histories.
update_skip_append(self, tr) ==
    LET v == clamp(self.vel)
        p == VAdd(self.pos, v)
    IN  IF is_legal(p, tr)
        THEN car_after(self, TRUE, p, VAdd(v, self.accl), self.accl)
        ELSE [car_after(self, FALSE, self.pos, Zero, Zero)
                 EXCEPT !.pos_history = self.pos_history,
                        !.vel_history = self.vel_history,
                        !.accl_history = self.accl_history]

\* The previous-velocity snapshot is taken after the clamping instead of
\* on entry.
update_snapshot_after_clamp(self, tr) ==
    LET v == clamp(self.vel)
        p == VAdd(self.pos, v)
    IN  IF is_legal(p, tr)
        THEN [car_after(self, TRUE, p, VAdd(v, self.accl), self.accl)
                 EXCEPT !.last_vel = v]
        ELSE [car_after(self, FALSE, self.pos, Zero, Zero)
                 EXCEPT !.last_vel = v]

\* Car.update, with self.accl already set by run
update(self, tr) ==
    LET v == clamp(self.vel)
        p == VAdd(self.pos, v)
    IN  IF is_legal(p, tr)
        THEN car_after(self, TRUE, p, VAdd(v, self.accl), self.accl)
        ELSE car_after(self, FALSE, self.pos, Zero, Zero)

(***************************************************************************)
(* The numpy arrays behind the first vehicle's position and velocity        *)
(*                                                                         *)
(* heap.mem lists the array objects created so far (an object's identity   *)
(* is its index, its entry its current contents); heap.pos, heap.vel,      *)
(* heap.last_pos and heap.last_vel are the objects the attributes are      *)
(* bound to, and heap.pos_history and heap.vel_history the objects the     *)
(* lists hold.  An assignment rebinds a name, an augmented assignment or   *)
(* an indexed store changes the object in place.                           *)
(***************************************************************************)
\* A new array object with contents v.
alloc(mem, v) == [mem |-> Append(mem, v), id |-> Len(mem) + 1]

\* A variant of np_copy that hands back the object itself.
np_copy_same_object(mem, id) == [mem |-> mem, id |-> id]

\* np.copy(obj): a new object with the current contents of obj
np_copy(mem, id) == alloc(mem, mem[id])

\* The array objects after Car.__init__ for initial position p: self.pos,
\* self.vel, self.last_vel, self.last_pos and the first history entries.
heap_init(p) ==
    [mem |-> <<p, Zero, Zero, Zero, p, Zero>>,
     pos |-> 1, vel |-> 2, last_vel |-> 3, last_pos |-> 4,
     pos_history |-> <<5>>, vel_history |-> <<6>>]

\* Car.update on the array objects; a is self.accl.
update_heap(h, a, tr) ==
    LET c1 == np_copy(h.mem, h.pos)
        c2 == np_copy(c1.mem, h.vel)
        m3 == [c2.mem EXCEPT ![h.vel] = clamp(@)]
        m4 == [m3 EXCEPT ![h.pos] = VAdd(@, m3[h.vel])]
        legal == is_legal(m4[h.pos], tr)
        m5 == IF legal THEN [m4 EXCEPT ![h.vel] = VAdd(@, a)] ELSE m4
        z == alloc(m5, Zero)
        mem6 == IF legal THEN m5 ELSE z.mem
        pos6 == IF legal THEN h.pos ELSE c1.id
        vel6 == IF legal THEN h.vel ELSE z.id
        e1 == np_copy(mem6, pos6)
        e2 == np_copy(e1.mem, vel6)
    IN  [mem |-> e2.mem,
         pos |-> pos6, vel |-> vel6,
         last_pos |-> c1.id, last_vel |-> c2.id,
         pos_history |-> Append(h.pos_history, e1.id),
         vel_history |-> Append(h.vel_history, e2.id)]

(***************************************************************************)
(* Car.__init__                                                            *)
(***************************************************************************)
Min(a, b) == IF a < b THEN a ELSE b

Max(a, b) == IF a < b THEN b ELSE a

\* The integer outcomes of
\*   np.random.uniform((lower[0] + upper[0]) / 4, 3 * (lower[0] + upper[0]) / 4)
\* which draws low + (high - low) * u with u in [0, 1): from [low, high),
\* from (high, low] when low > high, and low itself when low = high.
InitYs(tr) ==
    LET s == tr.lower[1] + tr.upper[1] IN
    {y \in Min(s, -s)..Max(s, -s) :
        \/ s > 0 /\ s <= 4 * y /\ 4 * y < 3 * s
        \/ s < 0 /\ 3 * s < 4 * y /\ 4 * y <= s
        \/ s = 0 /\ y = 0}

\* self.pos = np.array((track[0][0] + 1, np.random.uniform(...)))
InitPos(tr) == {<<tr.xs[1] + 1, y>> : y \in InitYs(tr)}

\* The values a decision function returns in the model: rest, mild and
\* strong thrust along either axis, and non-finite output.
Accls == {<<0, 0>>, <<1, 0>>, <<-1, 0>>, <<30, 0>>,
          <<0, 30>>, <<0, -30>>, <<NaN, 0>>}

\* The attributes Car.__init__ sets for a vehicle on track.
Constructed ==
    /\ pos \in InitPos(track)
    /\ accl = Zero
    /\ vel = Zero
    /\ last_vel = Zero
    /\ last_pos = Zero
    /\ pos_history = <<pos>>
    /\ vel_history = <<vel>>
    /\ accl_history = <<accl>>
    /\ decision = Zero
    /\ legal_history = <<>>
    /\ params = [dist |-> <<0, 0, 0, 0>>, vel |-> Zero,
                 last_dist |-> <<0, 0, 0, 0>>, last_vel |-> Zero]
    /\ heap = heap_init(pos)

\* A second Car constructed on the same track object, as a record of its
\* attributes; decisions lists what its accl_function returned so far.
NewCar(p) ==
    [pos |-> p, vel |-> Zero, accl |-> Zero,
     last_pos |-> Zero, last_vel |-> Zero,
     pos_history |-> <<p>>, vel_history |-> <<Zero>>,
     accl_history |-> <<Zero>>,
     legal_history |-> <<>>, decisions |-> <<>>]

\* One vehicle under study; the second one starts from the same draw and
\* is not stepped.
Init ==
    /\ track \in Tracks
    /\ Constructed
    /\ other = NewCar(pos)

\* Two vehicles constructed independently on one track.
InitTwo ==
    /\ track \in Tracks
    /\ Constructed
    /\ other \in {NewCar(p) : p \in InitPos(track)}

(***************************************************************************)
(* Car.get_surrounding                                                     *)
(*                                                                         *)
(* The rotated direction of eye e under velocity v is                      *)
(*   (e.x * v.x - e.y * v.y, e.x * v.y + e.y * v.x) / |v|                  *)
(* and is kept as its integer numerator with n = |v|^2; signs of           *)
(* expressions a - b * sqrt(n) are decided exactly.  A reading is kept as  *)
(* its square (the distance k * |e| to sample k has square k^2 * |e|^2).   *)
(***************************************************************************)
\* self.eyes
eyes == <<<<0, 1>>, <<0, -1>>, <<1, 1>>, <<1, -1>>>>

\* self.max_dist
max_dist == 1000

Sgn(z) == IF z > 0 THEN 1 ELSE IF z < 0 THEN -1 ELSE 0

\* The sign of a - b * sqrt(n) for integers a > 0, b > 0 and n >= 1, by
\* way of q = a div b so that no intermediate product leaves 32 bits:
\* a - b * sqrt(n) has the sign of (q * b + r)^2 - b^2 * n.
CmpRoot(a, b, n) ==
    LET q == a \div b
        r == a % b
    IN  IF q > n THEN 1
        ELSE IF q * q > n THEN 1
        ELSE IF (q + 1) * (q + 1) <= n THEN -1
        ELSE Sgn(b * b * (q * q - n) + 2 * q * b * r + r * r)

\* np.sign(a - b * sqrt(n)) for integers a, b and n >= 1
SgnRoot(a, b, n) ==
    IF b = 0 THEN Sgn(a)
    ELSE IF a = 0 THEN -Sgn(b)
    ELSE IF a > 0 /\ b < 0 THEN 1
    ELSE IF a < 0 /\ b > 0 THEN -1
    ELSE IF a > 0 THEN CmpRoot(a, b, n)
    ELSE -CmpRoot(-a, -b, n)

\* rotated_eyes[i], times |v|; the eye itself under the identity rotation
\* used for zero velocity.
rotated_eye(i, v) ==
    IF v = Zero THEN eyes[i]
    ELSE <<eyes[i][1] * v[1] - eyes[i][2] * v[2],
           eyes[i][1] * v[2] + eyes[i][2] * v[1]>>

\* The boundary array eye i is compared with: the upper one when the
\* unrotated eye points up, else the lower one.
eye_boundary(i, tr) == IF eyes[i][2] > 0 THEN tr.upper ELSE tr.lower

\* np.sign(vision_tensor[:, i, 1] - boundary), sample k at TLA+ index k + 1.
\* A velocity with a nan component has norm nan, so every sample is nan.
ray_signs(i, p, v, tr) ==
    LET b == eye_boundary(i, tr)
        n == IF v = Zero THEN 1 ELSE v[1] * v[1] + v[2] * v[2]
    IN  [j \in 1..Len(tr.xs) |->
            IF IsNaN(v[1]) \/ IsNaN(v[2]) THEN NaN
            ELSE SgnRoot((j - 1) * rotated_eye(i, v)[2], b[j] - p[2], n)]

\* np.argwhere(np.diff(signs)).flatten(): the Python indices k at which
\* signs[k + 1] - signs[k] is non-zero (a nan difference is non-zero).
crossings(sg) ==
    {k \in 0..(Len(sg) - 2) :
        IsNaN(sg[k + 1]) \/ IsNaN(sg[k + 2]) \/ sg[k + 2] # sg[k + 1]}

\* The square of dists[i]: the distance to the sample at the crossing index
\* when idx holds exactly one index (reshape(2) succeeds), and max_dist when
\* reshape(2) raises ValueError (idx empty or of several indices).
reading_sq(i, p, v, tr) ==
    LET idx == crossings(ray_signs(i, p, v, tr)) IN
    IF Cardinality(idx) = 1
    THEN LET k == CHOOSE c \in idx : TRUE IN
         IF IsNaN(v[1]) \/ IsNaN(v[2]) THEN NaN
         ELSE k * k * (eyes[i][1] * eyes[i][1] + eyes[i][2] * eyes[i][2])
    ELSE max_dist * max_dist

\* Car.get_surrounding(pos, vel), each reading squared
get_surrounding(p, v, tr) == [i \in 1..Len(eyes) |-> reading_sq(i, p, v, tr)]

(***************************************************************************)
(* Car.run                                                                 *)
(***************************************************************************)
\* What one call of run() does to the vehicle it is called on, when its
\* accl_function returns a for the argument params (which run() returns).
run_self(a) ==
    /\ Len(legal_history) < MaxSteps
    /\ params' = [dist      |-> get_surrounding(pos, vel, track),
                  vel       |-> vel,
                  last_dist |-> get_surrounding(last_pos, last_vel, track),
                  last_vel  |-> last_vel]
    /\ LET self == [pos |-> pos, vel |-> vel, accl |-> a,
                    last_pos |-> last_pos, last_vel |-> last_vel,
                    pos_history |-> pos_history,
                    vel_history |-> vel_history,
                    accl_history |-> accl_history]
           new == update(self, track)
       IN  /\ pos' = new.pos
           /\ vel' = new.vel
           /\ accl' = new.accl
           /\ last_pos' = new.last_pos
           /\ last_vel' = new.last_vel
           /\ pos_history' = new.pos_history
           /\ vel_history' = new.vel_history
           /\ accl_history' = new.accl_history
           /\ legal_history' = Append(legal_history, new.legal)
    /\ decision' = a
    /\ heap' = update_heap(heap, a, track)

\* A variant in which pos_history is one list shared by all vehicles.
run_shared_history(a) ==
    /\ run_self(a)
    /\ other' = [other EXCEPT !.pos_history = Append(@, pos')]
    /\ UNCHANGED track

\* One call of run() on the first vehicle: it writes its own attributes
\* only and reads the track.
run(a) == run_self(a) /\ UNCHANGED <<track, other>>

\* The vehicle c after one call of its run() with decision a.
car_step(c, a, tr) ==
    LET new == update([c EXCEPT !.accl = a], tr) IN
    [pos |-> new.pos, vel |-> new.vel, accl |-> new.accl,
     last_pos |-> new.last_pos, last_vel |-> new.last_vel,
     pos_history |-> new.pos_history, vel_history |-> new.vel_history,
     accl_history |-> new.accl_history,
     legal_history |-> Append(c.legal_history, new.legal),
     decisions |-> Append(c.decisions, a)]

\* One call of run() on the second vehicle.
run_other(a) ==
    /\ other' = car_step(other, a, track)
    /\ UNCHANGED <<track, pos, vel, accl, last_pos, last_vel, pos_history,
                   vel_history, accl_history, decision, legal_history, params,
                   heap>>

Next == \E a \in Accls : run(a)

Spec == Init /\ [][Next]_vars

\* A vehicle constructed on the long track.
InitLong ==
    /\ track = TrackLong
    /\ Constructed
    /\ other = NewCar(pos)

\* Number of run() calls explored on the long track.
LongSteps == 3

NextLong == \E a \in Accls : Len(legal_history) < LongSteps /\ run(a)

SpecLong == InitLong /\ [][NextLong]_vars

\* Two vehicles on one track, stepped in any interleaving of whole steps.
\* Number of run() calls explored per vehicle:
TwoSteps == 2

TwoAccls == {<<0, 0>>, <<1, 0>>, <<0, 30>>, <<NaN, 0>>}

NextTwo ==
    \E a \in TwoAccls :
        \/ Len(legal_history) < TwoSteps /\ run(a)
        \/ Len(other.legal_history) < TwoSteps /\ run_other(a)

SpecTwo == InitTwo /\ [][NextTwo]_vars

(***************************************************************************)
(* Car.utility                                                             *)
(***************************************************************************)
\* x_pos = np.array(self.pos_history)[:, 0]
x_pos(ph) == [i \in 1..Len(ph) |-> ph[i][1]]

RECURSIVE max_scan(_, _, _)
\* The largest of m and s[i..]
max_scan(s, i, m) ==
    IF i > Len(s) THEN m
    ELSE max_scan(s, i + 1, IF s[i] > m THEN s[i] ELSE m)

\* np.max over a non-empty array without nan
np_max(s) == max_scan(s, 2, s[1])

RECURSIVE argmax_scan(_, _, _)
\* The scan of np.argmax: a later element replaces the best one only when
\* strictly larger.  best and the result are TLA+ indices.
argmax_scan(s, i, best) ==
    IF i > Len(s) THEN best
    ELSE argmax_scan(s, i + 1, IF s[i] > s[best] THEN i ELSE best)

RECURSIVE argmax_last_scan(_, _, _)
argmax_last_scan(s, i, best) ==
    IF i > Len(s) THEN best
    ELSE argmax_last_scan(s, i + 1, IF s[i] >= s[best] THEN i ELSE best)

\* A variant of np_argmax that reports the last occurrence of the maximum.
np_argmax_last(s) == argmax_last_scan(s, 2, 1) - 1

\* np.argmax over a non-empty array without nan, as a Python index
np_argmax(s) == argmax_scan(s, 2, 1) - 1

\* Car.utility: (max_dist, time); its local max_dist is max_x here
utility(ph, tr) ==
    LET x == x_pos(ph)
        max_x == np_max(x)
        time == IF max_x >= end(tr) - 2 THEN np_argmax(x) ELSE -1
    IN  <<max_x, time>>

(***************************************************************************)
(* Properties of the step                                                  *)
(***************************************************************************)
Last(s) == s[Len(s)]

\* The position update tentatively moves to: position + clamped velocity.
Tentative == VAdd(pos, clamp(vel))

\* The last completed step was rolled back.
Crashed == Len(legal_history) >= 1 /\ ~Last(legal_history)

\* C1: every recorded position after the first is legal or equals the
\* position recorded before it.
C1_RollbackInvariant ==
    \A i \in 2..Len(pos_history) :
        is_legal(pos_history[i], track) \/ pos_history[i] = pos_history[i - 1]

\* A legal move followed by a rolled-back step.
C1_Witness ==
    \E i \in 2..(Len(pos_history) - 1) :
        /\ legal_history[i - 1] /\ pos_history[i] # pos_history[i - 1]
        /\ ~legal_history[i] /\ pos_history[i + 1] = pos_history[i]

\* C2 as stated: once a step has been rolled back, every later step is
\* rolled back too and leaves position unchanged, velocity and acceleration
\* zero.
C2_CrashIsTerminal ==
    [][Crashed => /\ ~Last(legal_history')
                  /\ pos' = pos /\ vel' = Zero /\ accl' = Zero]_vars

\* C2 amended: the step after a rolled-back step leaves the position
\* unchanged; it is rolled back again (velocity and acceleration zero) only
\* when the restored position is itself illegal, which needs an illegal
\* initial position; otherwise it is legal and velocity and acceleration
\* become the decision output, so the vehicle moves again.
C2_AfterCrash ==
    [][Crashed =>
        /\ pos' = pos
        /\ Last(legal_history') = is_legal(pos, track)
        /\ is_legal(pos, track) => vel' = decision' /\ accl' = decision'
        /\ ~is_legal(pos, track) => vel' = Zero /\ accl' = Zero
        /\ is_legal(pos_history[1], track) => is_legal(pos, track)]_vars

\* A vehicle that was rolled back and recorded a different position later.
C2_Witness ==
    \E i \in 1..Len(legal_history) :
        /\ ~legal_history[i]
        /\ \E j \in (i + 1)..Len(legal_history) :
              legal_history[j] /\ pos_history[j + 1] # pos_history[i + 1]

\* C3: when the tentative position is illegal the step completes with the
\* start-of-step position, zero velocity and zero acceleration, and appends
\* exactly these values to the histories.
C3_IllegalStepRollsBack ==
    [][~is_legal(Tentative, track) =>
        /\ pos' = pos /\ vel' = Zero /\ accl' = Zero
        /\ pos_history' = Append(pos_history, pos)
        /\ vel_history' = Append(vel_history, Zero)
        /\ accl_history' = Append(accl_history, Zero)
        /\ legal_history' = Append(legal_history, FALSE)]_vars

\* A rollback from motion to a legal position, with a non-zero decision.
C3_Witness ==
    /\ Crashed
    /\ last_vel # Zero /\ ~IsNaN(last_vel[1]) /\ ~IsNaN(last_vel[2])
    /\ decision # Zero
    /\ pos = last_pos /\ is_legal(pos, track)
    /\ vel = Zero /\ accl = Zero

\* C4: on a legal step the new position is p + clamp(v), the new velocity
\* is clamp(v) + a and the recorded acceleration is a, for start-of-step
\* position p, velocity v and decision output a.
C4_LegalStep ==
    [][is_legal(Tentative, track) =>
        /\ pos' = Tentative
        /\ vel' = VAdd(clamp(vel), decision')
        /\ accl' = decision'
        /\ pos_history' = Append(pos_history, Tentative)
        /\ vel_history' = Append(vel_history, VAdd(clamp(vel), decision'))
        /\ accl_history' = Append(accl_history, decision')]_vars

\* A legal step that moved with a clamped velocity and a non-zero decision.
C4_Witness ==
    /\ Len(legal_history) >= 1 /\ Last(legal_history)
    /\ clamp(last_vel) # last_vel
    /\ clamp(last_vel) # Zero
    /\ decision # Zero
    /\ pos = VAdd(last_pos, clamp(last_vel))

\* C5 as stated: on a well-formed track the initial position is just past
\* xs[0], strictly between the boundaries at the track start, and legal.
C5_InitialPositionLegal ==
    WellFormed(track) =>
        /\ pos_history[1][1] = track.xs[1] + 1
        /\ track.lower[1] < pos_history[1][2]
        /\ pos_history[1][2] < track.upper[1]
        /\ is_legal(pos_history[1], track)

\* C6: after n completed steps each history holds n + 1 entries, the first
\* being the initial state with zero velocity and acceleration.
C6_HistoryLength ==
    /\ Len(pos_history) = Len(legal_history) + 1
    /\ Len(vel_history) = Len(legal_history) + 1
    /\ Len(accl_history) = Len(legal_history) + 1
    /\ pos_history[1] \in InitPos(track)
    /\ vel_history[1] = Zero
    /\ accl_history[1] = Zero

\* Three or more steps, legal and rolled back ones among them.
C6_Witness ==
    /\ Len(legal_history) >= 3
    /\ \E i, j \in 1..Len(legal_history) : legal_history[i] /\ ~legal_history[j]

Abs(n) == IF n < 0 THEN -n ELSE n

\* C7 as stated: the velocity added to the position in a step has its
\* forward component in [0, max_forward] and its lateral component in
\* [-max_lateral, max_lateral], and consecutive recorded positions differ
\* by at most max_forward in x and max_lateral in |y|.
C7_ClampedVelocityInRange ==
    [][/\ FGe(clamp(vel)[1], 0) /\ FGe(max_vel[1], clamp(vel)[1])
       /\ FGe(clamp(vel)[2], -max_vel[2]) /\ FGe(max_vel[2], clamp(vel)[2])
       /\ Abs(pos'[1] - pos[1]) <= max_vel[1]
       /\ Abs(pos'[2] - pos[2]) <= max_vel[2]]_vars

(***************************************************************************)
(* Properties of scoring and construction                                  *)
(***************************************************************************)
\* The recorded x-coordinates and the result of utility() in this state.
Xs == x_pos(pos_history)

U == utility(pos_history, track)

\* C8: utility() returns (m, t) with m the maximum recorded x; t = -1
\* exactly when m < end_x - 2, and otherwise t is the smallest history
\* index whose x equals m.
C8_Utility ==
    /\ \A i \in 1..Len(Xs) : Xs[i] <= U[1]
    /\ \E i \in 1..Len(Xs) : Xs[i] = U[1]
    /\ U[2] = -1 <=> U[1] < end(track) - 2
    /\ U[2] # -1 =>
          /\ U[2] + 1 \in 1..Len(Xs)
          /\ Xs[U[2] + 1] = U[1]
          /\ \A j \in 1..U[2] : Xs[j] # U[1]

\* A finished trajectory whose maximum x is recorded more than once, the
\* first time after the start.
C8_Witness ==
    /\ U[2] >= 1
    /\ \E j \in (U[2] + 2)..Len(Xs) : Xs[j] = U[1]

\* C9 as stated: a reported step index other than -1 is the first history
\* index at which the recorded x reached end_x - 2.
C9_TimeIsFirstFinishStep ==
    U[2] # -1 =>
        /\ Xs[U[2] + 1] >= end(track) - 2
        /\ \A j \in 1..U[2] : Xs[j] < end(track) - 2

\* C10 as stated: no vehicle exists, and none is stepped, on a malformed
\* track.
C10_NoStepOnMalformedTrack ==
    Len(legal_history) >= 1 => WellFormed(track)

(***************************************************************************)
(* Properties of the decision interface                                    *)
(***************************************************************************)
HasNaN(v) == IsNaN(v[1]) \/ IsNaN(v[2])

\* C11 as stated: a non-finite decision output is rejected, so no
\* non-finite value is ever appended to the velocity or acceleration
\* history, and none is in the velocity a later step integrates and checks.
C11_BadDecisionRejected ==
    /\ \A i \in 1..Len(vel_history) : ~HasNaN(vel_history[i])
    /\ \A i \in 1..Len(accl_history) : ~HasNaN(accl_history[i])
    /\ ~HasNaN(vel)

(***************************************************************************)
(* Properties of the sensor model                                          *)
(***************************************************************************)
EyeNormSq(i) == eyes[i][1] * eyes[i][1] + eyes[i][2] * eyes[i][2]

\* The smallest element of a non-empty set of integers.
MinOf(S) == CHOOSE m \in S : \A e \in S : m <= e

\* The reading of eye i is the distance from p to the first crossing sample
\* whenever the ray has a sign change.
FirstCrossingReported(i, p, v, tr) ==
    LET idx == crossings(ray_signs(i, p, v, tr)) IN
    idx # {} =>
        get_surrounding(p, v, tr)[i] = MinOf(idx) * MinOf(idx) * EyeNormSq(i)

\* C12 as stated: for each sensor direction, whenever the sampled ray has
\* at least one sign change against its boundary array, get_surrounding
\* returns the distance to the first crossing sample point, not the
\* sentinel; for both sensing calls of the next run().
C12_FirstCrossingDistance ==
    WellFormed(track) =>
        \A i \in 1..Len(eyes) :
            /\ FirstCrossingReported(i, pos, vel, track)
            /\ FirstCrossingReported(i, last_pos, last_vel, track)

\* Every reading lies in [0, max_dist] (readings are kept squared).
ReadingsInRange(d) ==
    \A i \in 1..Len(eyes) :
        ~IsNaN(d[i]) /\ 0 <= d[i] /\ d[i] <= max_dist * max_dist

\* C13 as stated: every reading get_surrounding returns lies in
\* [0, max_dist], and a ray without a crossing reads exactly max_dist.
C13_ReadingsBounded ==
    /\ ReadingsInRange(get_surrounding(pos, vel, track))
    /\ ReadingsInRange(get_surrounding(last_pos, last_vel, track))
    /\ \A i \in 1..Len(eyes) :
          crossings(ray_signs(i, pos, vel, track)) = {} =>
              get_surrounding(pos, vel, track)[i] = max_dist * max_dist

\* C16: from the second step on, the decision function is called once per
\* step, before the step changes anything, on the readings and velocity of
\* the latest history entry and of the entry before it (the unclamped
\* velocity and the position held at the start of the previous step), also
\* after a rolled-back step.
C16_DecisionInputs ==
    [][Len(legal_history) >= 1 =>
        LET n == Len(pos_history) IN
        /\ pos = pos_history[n] /\ vel = vel_history[n]
        /\ last_pos = pos_history[n - 1] /\ last_vel = vel_history[n - 1]
        /\ params' =
              [dist      |-> get_surrounding(pos_history[n], vel_history[n], track),
               vel       |-> vel_history[n],
               last_dist |-> get_surrounding(pos_history[n - 1],
                                             vel_history[n - 1], track),
               last_vel  |-> vel_history[n - 1]]
        /\ legal_history' = Append(legal_history, Last(legal_history'))]_vars

\* A step taken right after a rolled-back step, whose decision function saw
\* the unclamped velocity that led to the rollback.
C16_Witness ==
    LET k == Len(legal_history) IN
    /\ k >= 2 /\ ~legal_history[k - 1]
    /\ params.vel = Zero
    /\ params.last_vel = vel_history[k - 1]
    /\ ~HasNaN(params.last_vel)
    /\ clamp(params.last_vel) # params.last_vel

(***************************************************************************)
(* Properties of the boundary lookup                                       *)
(***************************************************************************)
\* The interpolated value q equals y exactly.
QEq(q, y) == ~q.nan /\ q.num = y * q.den

\* track_at(x) returns exactly (lo, hi).
BoundsAt(x, lo, hi) ==
    QEq(track_at(x, track)[1], lo) /\ QEq(track_at(x, track)[2], hi)

\* C14: on a well-formed track the lookup at x = xs[k] returns exactly
\* (lower[k], upper[k]) for every sample k, and for x below xs[0] or above
\* xs[-1] (by up to one clamped step) the bounds of the nearest endpoint.
C14_BoundLookupRoundTrip ==
    WellFormed(track) =>
        LET n == Len(track.xs) IN
        /\ \A k \in 1..n :
              BoundsAt(track.xs[k], track.lower[k], track.upper[k])
        /\ \A d \in 1..max_vel[1] :
              /\ BoundsAt(track.xs[1] - d, track.lower[1], track.upper[1])
              /\ BoundsAt(track.xs[n] + d, track.lower[n], track.upper[n])

\* A legal step onto an interior sample point and, before it, a step
\* rolled back for leaving the track at its end: is_legal looked the bounds
\* up at a sample and beyond xs[-1].
C14_Witness ==
    /\ WellFormed(track)
    /\ Len(legal_history) >= 1 /\ Last(legal_history)
    /\ pos[1] = track.xs[2]
    /\ \E i \in 1..Len(legal_history) :
          /\ ~legal_history[i]
          /\ ~HasNaN(vel_history[i])
          /\ pos_history[i][1] + clamp(vel_history[i])[1] > end(track)

(***************************************************************************)
(* Properties of the recorded trajectory                                   *)
(***************************************************************************)
\* C17: the recorded x-coordinates never decrease, so the maximum x that
\* utility() reports is the last recorded x.
C17_ForwardMonotone ==
    /\ \A i \in 1..(Len(Xs) - 1) : Xs[i] <= Xs[i + 1]
    /\ U[1] = Last(Xs)

\* A vehicle that advanced, then held a negative forward velocity through
\* a legal step.
C17_Witness ==
    /\ Len(legal_history) >= 1 /\ Last(legal_history)
    /\ ~HasNaN(last_vel) /\ last_vel[1] < 0
    /\ pos[1] > pos_history[1][1]

(***************************************************************************)
(* Properties of two vehicles on one track                                 *)
(***************************************************************************)
\* The attributes of the first vehicle.
CarOne ==
    <<pos, vel, accl, last_pos, last_vel,
      pos_history, vel_history, accl_history>>

\* C15: a step of one vehicle changes neither the track nor any attribute
\* or history of the other vehicle, and takes the stepping vehicle to the
\* state its own update gives from its own state and decision, as when it
\* runs alone.
C15_VehiclesIndependent ==
    [][/\ track' = track
       /\ CarOne' # CarOne => other' = other
       /\ other' # other =>
             /\ CarOne' = CarOne
             /\ other' = car_step(other, Last(other.decisions'), track)
       /\ legal_history' # legal_history =>
             /\ other' = other
             /\ LET new == update([pos |-> pos, vel |-> vel, accl |-> decision',
                                   last_pos |-> last_pos, last_vel |-> last_vel,
                                   pos_history |-> pos_history,
                                   vel_history |-> vel_history,
                                   accl_history |-> accl_history], track)
                IN  CarOne' = <<new.pos, new.vel, new.accl, new.last_pos,
                                new.last_vel, new.pos_history,
                                new.vel_history, new.accl_history>>]_vars

\* Both vehicles have stepped, each was rolled back once, and their
\* trajectories differ.
C15_Witness ==
    /\ Len(legal_history) >= 2 /\ ~Last(legal_history)
    /\ Len(other.legal_history) >= 2 /\ ~Last(other.legal_history)
    /\ other.vel_history # vel_history

(***************************************************************************)
(* Properties of the stored history                                        *)
(***************************************************************************)
\* The contents of the objects a history list holds.
Contents(h, ids) == [i \in 1..Len(ids) |-> h.mem[ids[i]]]

\* C18: an appended history entry never changes: each step leaves every
\* entry the same object with the same contents, the lists only grow at
\* the end, and the contents are the recorded values (position, velocity)
\* of the step that appended them.
C18_HistoryAppendOnly ==
    [][/\ \A i \in 1..Len(heap.pos_history) :
             /\ heap'.pos_history[i] = heap.pos_history[i]
             /\ heap'.mem[heap.pos_history[i]] = heap.mem[heap.pos_history[i]]
       /\ \A i \in 1..Len(heap.vel_history) :
             /\ heap'.vel_history[i] = heap.vel_history[i]
             /\ heap'.mem[heap.vel_history[i]] = heap.mem[heap.vel_history[i]]
       /\ Contents(heap', heap'.pos_history) = pos_history'
       /\ Contents(heap', heap'.vel_history) = vel_history'
       /\ heap'.mem[heap'.pos] = pos' /\ heap'.mem[heap'.vel] = vel'
       /\ heap'.mem[heap'.last_pos] = last_pos'
       /\ heap'.mem[heap'.last_vel] = last_vel'
       /\ \A i \in 1..Len(pos_history) : pos_history'[i] = pos_history[i]
       /\ \A i \in 1..Len(vel_history) : vel_history'[i] = vel_history[i]
       /\ \A i \in 1..Len(accl_history) : accl_history'[i] = accl_history[i]]_vars

\* After a rollback bound self.pos to the snapshot object, the vehicle
\* moved again: that object was updated in place and differs from the
\* entry recorded at the rollback.
C18_Witness ==
    \E i \in 1..Len(legal_history) :
        /\ ~legal_history[i]
        /\ heap.pos # 1
        /\ heap.mem[heap.pos] # pos_history[i + 1]

====
